---- MODULE Spec2Model ----
(***************************************************************************)
(* Model of the image converter: the dispatcher and executor of           *)
(* src/src/converter.py (FileConverter) and the batch loop of              *)
(* src/src/main.py (main, validate_args, get_input_files).                 *)
(*                                                                         *)
(* A Python str is a sequence of one-character strings, so that lower(),   *)
(* lstrip('.'), Path.suffix, Path.stem and Path.with_suffix are computed   *)
(* as pathlib computes them.  A Path is the sequence of its components;    *)
(* <<>> is Path('.').  An optional value (None or a value) is a sequence   *)
(* of length 0 or 1.                                                       *)
(***************************************************************************)
EXTENDS Integers, Sequences, FiniteSets, TLC

VARIABLES pc, cmdline, args, dirs, files, input_files, idx, output_format,
          success_count, exit_code, exit_at, summary, log, lookup

vars == <<pc, cmdline, args, dirs, files, input_files, idx, output_format,
          success_count, exit_code, exit_at, summary, log, lookup>>

(***************************************************************************)
(* Bounds                                                                  *)
(***************************************************************************)
\* the largest number of paths given after --input
MaxInputs == 2

(***************************************************************************)
(* Strings                                                                 *)
(***************************************************************************)
None == <<>>
Some(x) == <<x>>

UpperLetters == <<"A","B","C","D","E","F","G","H","I","J","K","L","M",
                  "N","O","P","Q","R","S","T","U","V","W","X","Y","Z">>
LowerLetters == <<"a","b","c","d","e","f","g","h","i","j","k","l","m",
                  "n","o","p","q","r","s","t","u","v","w","x","y","z">>

LowerChar(c) ==
    IF \E i \in 1..26 : UpperLetters[i] = c
    THEN LowerLetters[CHOOSE i \in 1..26 : UpperLetters[i] = c]
    ELSE c

\* str.lower()
lower(s) == [i \in 1..Len(s) |-> LowerChar(s[i])]

\* str.lstrip('.')
RECURSIVE lstrip_dot(_)
lstrip_dot(s) ==
    IF s # <<>> /\ Head(s) = "." THEN lstrip_dot(Tail(s)) ELSE s

\* str.rfind('.'), 1-based; 0 when there is no dot
rfind_dot(s) ==
    IF \E i \in 1..Len(s) : s[i] = "."
    THEN CHOOSE i \in 1..Len(s) :
            s[i] = "." /\ \A j \in (i+1)..Len(s) : s[j] # "."
    ELSE 0

\* '*' in s
has_star(s) == \E i \in 1..Len(s) : s[i] = "*"

\* fnmatch of a name against a pattern whose only wildcard is '*'
RECURSIVE fnmatch(_, _)
fnmatch(name, pat) ==
    IF pat = <<>> THEN name = <<>>
    ELSE IF Head(pat) = "*"
         THEN fnmatch(name, Tail(pat))
              \/ (name # <<>> /\ fnmatch(Tail(name), pat))
         ELSE name # <<>> /\ Head(name) = Head(pat)
              /\ fnmatch(Tail(name), Tail(pat))

(***************************************************************************)
(* Format tokens                                                           *)
(***************************************************************************)
jpg == <<"j","p","g">>
jpeg == <<"j","p","e","g">>
png == <<"p","n","g">>
gif == <<"g","i","f">>
bmp == <<"b","m","p">>
ico == <<"i","c","o">>
webp == <<"w","e","b","p">>
tiff == <<"t","i","f","f">>
svg == <<"s","v","g">>
PNG == <<"P","N","G">>
txt == <<"t","x","t">>

\* FileConverter.__init__: self.supported_formats
supported_formats == {jpg, jpeg, png, gif, bmp, ico, webp, tiff}

\* the keys of the methods dictionary of _get_conversion_method
methods ==
    { <<jpg, png>>, <<jpeg, png>>, <<gif, png>>, <<bmp, png>>,
      <<ico, png>>, <<webp, png>>, <<tiff, png>>,
      <<png, jpg>>, <<png, jpeg>>, <<png, gif>>, <<png, bmp>>,
      <<png, ico>>, <<png, webp>>, <<png, tiff>>,
      <<jpg, gif>>, <<jpeg, gif>>, <<gif, jpg>>, <<gif, jpeg>>,
      <<gif, bmp>>, <<gif, ico>>, <<gif, webp>>, <<gif, tiff>>,
      <<bmp, jpg>>, <<bmp, jpeg>>, <<bmp, gif>>, <<bmp, ico>>,
      <<bmp, webp>>, <<bmp, tiff>>,
      <<ico, jpg>>, <<ico, jpeg>>, <<ico, gif>>, <<ico, bmp>>,
      <<ico, webp>>, <<ico, tiff>>,
      <<webp, jpg>>, <<webp, jpeg>>, <<webp, gif>>, <<webp, bmp>>,
      <<webp, ico>>, <<webp, tiff>>,
      <<tiff, jpg>>, <<tiff, jpeg>>, <<tiff, gif>>, <<tiff, bmp>>,
      <<tiff, ico>>, <<tiff, webp>> }

\* FileConverter._get_conversion_method: methods.get((input_format, output_format))
get_conversion_method(in_fmt, out_fmt) ==
    IF <<in_fmt, out_fmt>> \in methods
    THEN "_image_to_image" ELSE "None"

(***************************************************************************)
(* Paths                                                                   *)
(***************************************************************************)
\* Path.name
name(p) == IF p = <<>> THEN <<>> ELSE p[Len(p)]

\* Path.parent
parent(p) == IF p = <<>> THEN <<>> ELSE SubSeq(p, 1, Len(p) - 1)

\* Path.suffix:  i = name.rfind('.');  name[i:] if 0 < i < len(name) - 1
suffix(p) ==
    LET n == name(p)
        i == rfind_dot(n)
    IN  IF 1 < i /\ i < Len(n) THEN SubSeq(n, i, Len(n)) ELSE <<>>

\* Path.stem
stem(p) ==
    LET n == name(p)
        i == rfind_dot(n)
    IN  IF 1 < i /\ i < Len(n) THEN SubSeq(n, 1, i - 1) ELSE n

\* Path.with_suffix(sfx); None when pathlib raises ValueError (empty name)
with_suffix(p, sfx) ==
    IF name(p) = <<>> THEN None
    ELSE LET n == name(p)
             old == suffix(p)
             base == IF old = <<>> THEN n
                     ELSE SubSeq(n, 1, Len(n) - Len(old))
         IN  Some(Append(parent(p), base \o sfx))

\* the proper and improper prefixes of a path
Prefixes(p) == { SubSeq(p, 1, k) : k \in 0..Len(p) }

(***************************************************************************)
(* File system: dirs is the set of existing directories, files maps each   *)
(* existing regular file to its content.                                   *)
(***************************************************************************)
Image(w, h, m) == [kind |-> "image", w |-> w, h |-> h, mode |-> m, lines |-> <<>>]
Corrupt == [kind |-> "corrupt", w |-> 0, h |-> 0, mode |-> "", lines |-> <<>>]
\* what a file holds after open(..., "w+b") and an incomplete write
Partial == [kind |-> "partial", w |-> 0, h |-> 0, mode |-> "", lines |-> <<>>]
Text(ls) == [kind |-> "text", w |-> 0, h |-> 0, mode |-> "", lines |-> ls]

\* Path.is_file(), Path.is_dir(), Path.exists()
is_file(fs, p) == p \in DOMAIN fs
is_dir(ds, p) == p \in ds
exists(ds, fs, p) == is_dir(ds, p) \/ is_file(fs, p)

\* Path.mkdir(parents=True, exist_ok=True) raises (NotADirectoryError or
\* FileExistsError, both OSError) when the path or an ancestor is a file
mkdir_raises(fs, p) == \E q \in Prefixes(p) : is_file(fs, q)
mkdir(ds, p) == ds \cup Prefixes(p)

\* the entries of a directory
entries(ds, fs, d) == { q \in ds \cup DOMAIN fs : q # <<>> /\ parent(q) = d }

\* files with the content of p set to c
WriteFile(fs, p, c) ==
    [q \in DOMAIN fs \cup {p} |-> IF q = p THEN c ELSE fs[q]]

(***************************************************************************)
(* FileConverter._image_to_image                                           *)
(***************************************************************************)
ICO_SIZE == 256

\* the branch of the if / elif on output_path.suffix.lower() and img.mode
normalization(output_path, mode) ==
    IF lower(suffix(output_path)) \in {<<".">> \o jpg, <<".">> \o jpeg}
       /\ mode \in {"RGBA", "LA"}
    THEN "composite"
    ELSE IF lower(suffix(output_path)) = <<".">> \o ico
         THEN "resize"
         ELSE "none"

\* the image handed to img.save
normalized(img, norm) ==
    IF norm = "composite" THEN Image(img.w, img.h, "RGB")
    ELSE IF norm = "resize" THEN Image(ICO_SIZE, ICO_SIZE, img.mode)
    ELSE img

\* io_fail: the write of img.save fails after the file was opened;
\* cleanup: the codec library removes a file it created when the save fails
image_to_image(ds, fs, input_path, output_path, io_fail, cleanup) ==
    IF ~is_file(fs, input_path) \/ fs[input_path].kind # "image"
    THEN [status |-> "ConversionError", cause |-> "decode",
          norm |-> "none", files |-> fs]
    ELSE LET img == fs[input_path]
             norm == normalization(output_path, img.mode)
         IN  IF is_dir(ds, output_path)
             THEN [status |-> "ConversionError", cause |-> "save",
                   norm |-> norm, files |-> fs]
             ELSE IF io_fail
             THEN [status |-> "ConversionError", cause |-> "write",
                   norm |-> norm,
                   files |-> IF ~is_file(fs, output_path) /\ cleanup
                             THEN fs
                             ELSE WriteFile(fs, output_path, Partial)]
             ELSE [status |-> "ok", cause |-> "none", norm |-> norm,
                   files |-> WriteFile(fs, output_path, normalized(img, norm))]

(***************************************************************************)
(* FileConverter.convert                                                   *)
(***************************************************************************)
\* input_path.suffix.lower().lstrip('.')
input_ext_of(input_path) == lstrip_dot(lower(suffix(input_path)))

\* an output path built from input_path.name instead of input_path.stem
resolve_output_path_name(fs, input_path, fmt, output_dir) ==
    IF output_dir # None
    THEN IF is_file(fs, output_dir[1])
         THEN Some(output_dir[1])
         ELSE Some(Append(output_dir[1], name(input_path) \o <<".">> \o fmt))
    ELSE with_suffix(input_path, <<".">> \o fmt)

\* an output path that drops the result of with_suffix
resolve_output_path_keep(fs, input_path, fmt, output_dir) ==
    IF output_dir # None
    THEN IF is_file(fs, output_dir[1])
         THEN Some(output_dir[1])
         ELSE Some(Append(output_dir[1], stem(input_path) \o <<".">> \o fmt))
    ELSE IF name(input_path) = <<>> THEN None ELSE Some(input_path)

\* the "Determine output path" block; None when with_suffix raises
resolve_output_path(fs, input_path, fmt, output_dir) ==
    IF output_dir # None
    THEN IF is_file(fs, output_dir[1])
         THEN Some(output_dir[1])
         ELSE Some(Append(output_dir[1], stem(input_path) \o <<".">> \o fmt))
    ELSE with_suffix(input_path, <<".">> \o fmt)

\* the record of one call of convert: its arguments, how it ended
\* (status is "ok" or the type of the exception that left convert), and
\* the file system it left behind
Rejected(ds, fs, input_path, fmt, output_dir, status, cause, out) ==
    [input |-> input_path, fmt |-> fmt, output_dir |-> output_dir,
     status |-> status, cause |-> cause, output_path |-> out,
     norm |-> "none", dirs_before |-> ds, files_before |-> fs,
     dirs |-> ds, files |-> fs]

convert(ds, fs, input_path, fmt, output_dir, io_fail, cleanup) ==
    IF lower(fmt) \notin supported_formats
    THEN Rejected(ds, fs, input_path, fmt, output_dir,
                  "ConversionError", "unsupported", None)
    ELSE IF input_ext_of(input_path) = lower(fmt)
    THEN Rejected(ds, fs, input_path, fmt, output_dir,
                  "ConversionError", "same", None)
    ELSE LET out == resolve_output_path(fs, input_path, fmt, output_dir)
         IN
         IF out = None
         THEN Rejected(ds, fs, input_path, fmt, output_dir,
                       "ValueError", "with_suffix", None)
         ELSE IF mkdir_raises(fs, parent(out[1]))
         THEN Rejected(ds, fs, input_path, fmt, output_dir,
                       "OSError", "mkdir", out)
         ELSE LET ds2 == mkdir(ds, parent(out[1]))
                  m == get_conversion_method(input_ext_of(input_path), lower(fmt))
              IN
              IF m = "None"
              THEN [Rejected(ds, fs, input_path, fmt, output_dir,
                             "ConversionError", "nopair", out)
                        EXCEPT !.dirs = ds2]
              ELSE LET r == image_to_image(ds2, fs, input_path, out[1],
                                           io_fail, cleanup)
                   IN  [input |-> input_path, fmt |-> fmt,
                        output_dir |-> output_dir,
                        status |-> r.status, cause |-> r.cause,
                        output_path |-> out, norm |-> r.norm,
                        dirs_before |-> ds, files_before |-> fs,
                        dirs |-> ds2, files |-> r.files]

(***************************************************************************)
(* The command line and the files of a run                                 *)
(***************************************************************************)
a_png == << <<"a",".","p","n","g">> >>
a_JPG == << <<"a",".","J","P","G">> >>
d_dir == << <<"d">> >>
dstar_dir == << <<"d","*">> >>
d_c_png == << <<"d">>, <<"c",".","p","n","g">> >>
o_png == << <<"o",".","p","n","g">> >>
o_png_sub == << <<"o",".","p","n","g">>, <<"s">> >>
new_dir == << <<"n">> >>
missing_png == << <<"m",".","p","n","g">> >>
list_txt == << <<"l",".","t","x","t">> >>
nolist_txt == << <<"x",".","t","x","t">> >>

\* the shapes of the image a.png
Shapes == { Image(16, 16, "RGB"), Image(300, 100, "RGBA"),
            Image(256, 256, "LA"), Image(100, 300, "RGB") }

InitDirs == { <<>>, d_dir, dstar_dir }
InitFiles(shape) ==
    [q \in {a_png, a_JPG, d_c_png, o_png, list_txt} |->
        IF q = a_png THEN shape
        ELSE IF q = a_JPG THEN Image(32, 16, "RGB")
        ELSE IF q = d_c_png THEN Corrupt
        ELSE IF q = o_png THEN Image(8, 8, "RGB")
        ELSE Text(<<a_png, <<>>, missing_png, a_JPG>>)]

\* the paths that may follow --input, the values of --batch, --format, --output
InputChoices == {a_png, a_JPG, list_txt, d_dir, dstar_dir, missing_png}
BatchChoices == {None, Some(list_txt), Some(nolist_txt), Some(d_dir)}
FormatChoices == {None, Some(png), Some(PNG), Some(jpg), Some(ico),
                  Some(bmp), Some(svg)}
OutputChoices == {None, Some(o_png), Some(new_dir), Some(d_dir),
                  Some(o_png_sub)}

SeqsUpTo(S, n) == UNION { [1..k -> S] : k \in 0..n }

Namespaces ==
    [input_paths : SeqsUpTo(InputChoices, MaxInputs), batch : BatchChoices,
     output_format : FormatChoices, output : OutputChoices]

EmptyNamespace ==
    [input_paths |-> <<>>, batch |-> None, output_format |-> None,
     output |-> None]

NoLookup == [fin |-> <<>>, fout |-> <<>>, res |-> "idle"]

(***************************************************************************)
(* main.validate_args                                                      *)
(***************************************************************************)
\* "not args.output_format": None or the empty string
no_format(a) == a.output_format = None \/ a.output_format[1] = <<>>

path_has_star(p) == \E k \in 1..Len(p) : has_star(p[k])

validate_args(ds, fs, a) ==
    /\ ~(a.input_paths = <<>> /\ a.batch = None)
    /\ ~(Len(a.input_paths) > 1 /\ no_format(a))
    /\ ~((\E k \in 1..Len(a.input_paths) : path_has_star(a.input_paths[k]))
         /\ no_format(a))
    /\ \A k \in 1..Len(a.input_paths) : exists(ds, fs, a.input_paths[k])
    /\ ~(a.batch # None /\ ~exists(ds, fs, a.batch[1]))

(***************************************************************************)
(* main.get_input_files                                                    *)
(***************************************************************************)
\* the orders in which a directory listing may return a set of paths
Orders(S) ==
    { q \in [1..Cardinality(S) -> S] :
        \A i, j \in 1..Cardinality(S) : i # j => q[i] # q[j] }

\* the lines of the batch file that exist, in order
RECURSIVE existing(_, _, _)
existing(ds, fs, ls) ==
    IF ls = <<>> THEN <<>>
    ELSE (IF exists(ds, fs, Head(ls)) THEN <<Head(ls)>> ELSE <<>>)
         \o existing(ds, fs, Tail(ls))

\* what one --input path contributes, as the set of possible sequences
expand_one(ds, fs, p) ==
    IF is_file(fs, p) THEN { <<p>> }
    ELSE IF path_has_star(p)
    THEN Orders({ q \in entries(ds, fs, parent(p)) : fnmatch(name(q), name(p)) })
    ELSE IF is_dir(ds, p)
    THEN Orders({ q \in entries(ds, fs, p) : is_file(fs, q) })
    ELSE { <<>> }

RECURSIVE expand(_, _, _)
expand(ds, fs, ps) ==
    IF ps = <<>> THEN { <<>> }
    ELSE { x \o y : x \in expand_one(ds, fs, Head(ps)),
                    y \in expand(ds, fs, Tail(ps)) }

\* open(args.batch) raises when the batch path is not a readable text file
batch_raises(fs, a) ==
    a.batch # None /\ (~is_file(fs, a.batch[1]) \/ fs[a.batch[1]].kind # "text")

get_input_files(ds, fs, a) ==
    IF a.batch # None
    THEN { existing(ds, fs, fs[a.batch[1]].lines) }
    ELSE expand(ds, fs, a.input_paths)

(***************************************************************************)
(* main                                                                    *)
(***************************************************************************)
Init ==
    /\ pc = "parse"
    /\ \/ cmdline = "ok" /\ args \in Namespaces
       \/ cmdline \in {"version", "help", "usage"} /\ args = EmptyNamespace
    /\ dirs = InitDirs
    /\ \E shape \in Shapes : files = InitFiles(shape)
    /\ input_files = <<>>
    /\ idx = 1
    /\ output_format = <<>>
    /\ success_count = 0
    /\ exit_code = -1
    /\ exit_at = "running"
    /\ summary = None
    /\ log = <<>>
    /\ lookup = NoLookup

\* a return of main (or an exit of argparse) with the given status
Exit(at, code) ==
    /\ pc' = "done"
    /\ exit_at' = at
    /\ exit_code' = code

Continue(to) ==
    /\ pc' = to
    /\ UNCHANGED <<exit_at, exit_code>>

\* parser.parse_args(): --version and --help print and exit with status 0,
\* a usage error exits with status 2
ParseArgs ==
    /\ pc = "parse"
    /\ IF cmdline = "ok" THEN Continue("validate")
       ELSE IF cmdline = "usage" THEN Exit("parse", 2)
       ELSE Exit("parse", 0)
    /\ UNCHANGED <<cmdline, args, dirs, files, input_files, idx,
                   output_format, success_count, summary, log, lookup>>

\* if not validate_args(args): return 1
ValidateArgs ==
    /\ pc = "validate"
    /\ IF validate_args(dirs, files, args)
       THEN Continue("prepare")
       ELSE Exit("validate", 1)
    /\ UNCHANGED <<cmdline, args, dirs, files, input_files, idx,
                   output_format, success_count, summary, log, lookup>>

\* the output format of the run; None when main prints
\* "Output format must be specified"
determine_format(a, fls) ==
    IF ~no_format(a) THEN a.output_format
    ELSE IF Len(fls) = 1 /\ a.output # None
         THEN Some(lower(lstrip_dot(suffix(a.output[1]))))
         ELSE None

\* from get_input_files(args) to success_count = 0
Prepare ==
    /\ pc = "prepare"
    /\ IF batch_raises(files, args)
       THEN Exit("prepare", 1) /\ UNCHANGED <<input_files, output_format>>
       ELSE \E fls \in get_input_files(dirs, files, args) :
              /\ input_files' = fls
              /\ IF fls = <<>> \/ determine_format(args, fls) = None
                 THEN Exit("prepare", 1) /\ UNCHANGED output_format
                 ELSE /\ output_format' = determine_format(args, fls)[1]
                      /\ Continue("loop")
    /\ idx' = 1
    /\ success_count' = 0
    /\ UNCHANGED <<cmdline, args, dirs, files, summary, log, lookup>>

\* a loop that counts every attempt as a success
count_after_attempts(status, n) == n + 1

\* success_count after one iteration: success_count += 1 when convert
\* returned, unchanged in "except Exception"
count_after(status, n) == IF status = "ok" THEN n + 1 ELSE n

\* one iteration of "for input_file in input_files": the call of convert,
\* then success_count += 1 or "except Exception"
LoopStep ==
    /\ pc = "loop"
    /\ idx <= Len(input_files)
    /\ \E io_fail \in BOOLEAN, cleanup \in BOOLEAN :
         LET r == convert(dirs, files, input_files[idx], output_format,
                          args.output, io_fail, cleanup)
         IN  /\ dirs' = r.dirs
             /\ files' = r.files
             /\ log' = Append(log, r)
             /\ success_count' = count_after(r.status, success_count)
    /\ idx' = idx + 1
    /\ UNCHANGED <<pc, cmdline, args, input_files, output_format, exit_code,
                   exit_at, summary, lookup>>

\* a return that takes a run without any success for a success
exit_status_nonneg(n) == IF n >= 0 THEN 0 ELSE 1

\* return 0 if success_count > 0 else 1
exit_status(n) == IF n > 0 THEN 0 ELSE 1

\* the end of the loop: the summary line
\* "{success_count}/{len(input_files)} files processed successfully"
\* and the return
Finish ==
    /\ pc = "loop"
    /\ idx > Len(input_files)
    /\ summary' = Some([succeeded |-> success_count,
                        attempted |-> Len(input_files)])
    /\ Exit("summary", exit_status(success_count))
    /\ UNCHANGED <<cmdline, args, dirs, files, input_files, idx,
                   output_format, success_count, log, lookup>>

\* except KeyboardInterrupt: return 1
Interrupt ==
    /\ pc \in {"prepare", "loop"}
    /\ Exit("interrupt", 1)
    /\ UNCHANGED <<cmdline, args, dirs, files, input_files, idx,
                   output_format, success_count, summary, log, lookup>>

Next == ParseArgs \/ ValidateArgs \/ Prepare \/ LoopStep \/ Finish \/ Interrupt

Spec == Init /\ [][Next]_vars

(***************************************************************************)
(* The dispatcher on its own: every pair of tokens is looked up            *)
(***************************************************************************)
Tokens == supported_formats \cup {svg, txt, <<>>}

DispatchInit ==
    /\ pc = "dispatch"
    /\ cmdline = "ok"
    /\ args = EmptyNamespace
    /\ dirs = InitDirs
    /\ files = InitFiles(Image(16, 16, "RGB"))
    /\ input_files = <<>>
    /\ idx = 1
    /\ output_format = <<>>
    /\ success_count = 0
    /\ exit_code = -1
    /\ exit_at = "running"
    /\ summary = None
    /\ log = <<>>
    /\ \E f1 \in Tokens, f2 \in Tokens :
         lookup = [fin |-> f1, fout |-> f2, res |-> "pending"]

\* one call of _get_conversion_method
Resolve ==
    /\ pc = "dispatch"
    /\ lookup.res = "pending"
    /\ lookup' = [lookup EXCEPT
                    !.res = get_conversion_method(lookup.fin, lookup.fout)]
    /\ UNCHANGED <<pc, cmdline, args, dirs, files, input_files, idx,
                   output_format, success_count, exit_code, exit_at,
                   summary, log>>

DispatchNext == Resolve

SpecDispatch == DispatchInit /\ [][DispatchNext]_vars

(***************************************************************************)
(* Properties                                                              *)
(***************************************************************************)
Calls == 1..Len(log)
Succeeded == { k \in Calls : log[k].status = "ok" }

\* a request that passes the three rejection rules
Accepted(r) ==
    /\ lower(r.fmt) \in supported_formats
    /\ input_ext_of(r.input) # lower(r.fmt)
    /\ <<input_ext_of(r.input), lower(r.fmt)>> \in methods

\* C1: the batch loop calls convert once for each file of the list, in list
\* order, whatever calls fail; at the end of the loop the reported succeeded
\* count is the number of calls that returned and the attempted count is the
\* length of the list.
C1_BatchLoop ==
    /\ Len(log) <= Len(input_files)
    /\ \A k \in Calls : log[k].input = input_files[k]
    /\ summary # None =>
         /\ Len(log) = Len(input_files)
         /\ summary[1].succeeded = Cardinality(Succeeded)
         /\ summary[1].attempted = Len(input_files)

\* a finished batch of three files or more where a file failed and a later
\* one was converted
C1_Witness ==
    /\ summary # None
    /\ Len(log) >= 3
    /\ \E i, j \in Calls : i < j /\ log[i].status # "ok" /\ log[j].status = "ok"

\* C2 as stated: every run exits with 0 if a file was converted and with 1
\* otherwise.
C2_Original ==
    pc = "done" => exit_code = (IF Succeeded # {} THEN 0 ELSE 1)

\* C2, amended: a run whose command line parses and that no keyboard
\* interrupt cuts short exits with 0 if a file was converted and with 1
\* otherwise.
C2_ExitCode ==
    (pc = "done" /\ exit_at \notin {"parse", "interrupt"})
        => exit_code = (IF Succeeded # {} THEN 0 ELSE 1)

\* a finished batch with a failure and a success, and exit status 0
C2_Witness ==
    /\ pc = "done"
    /\ exit_at = "summary"
    /\ exit_code = 0
    /\ \E k \in Calls : log[k].status # "ok"

\* C3: the lookup returns the transcode routine for every pair of distinct
\* supported formats, and the not-supported result for every identity pair
\* and every pair whose output format is not supported.
C3_Dispatch ==
    lookup.res \in {"_image_to_image", "None"} =>
        /\ (lookup.fin \in supported_formats /\ lookup.fout \in supported_formats
            /\ lookup.fin # lookup.fout) => lookup.res = "_image_to_image"
        /\ (lookup.fin = lookup.fout \/ lookup.fout \notin supported_formats)
            => lookup.res = "None"

\* C4: for an accepted request the output path is output_dir itself when
\* output_dir is an existing regular file, output_dir/<stem>.<format> when
\* output_dir is given and is not one, and the input path with its
\* extension replaced by .<format> when output_dir is absent.
C4_OutputPath ==
    \A k \in Calls :
        LET r == log[k]
            leaf == stem(r.input) \o <<".">> \o r.fmt
        IN  Accepted(r) =>
              /\ r.output_path # None
              /\ IF r.output_dir # None /\ r.output_dir[1] \in DOMAIN r.files_before
                 THEN r.output_path[1] = r.output_dir[1]
                 ELSE IF r.output_dir # None
                 THEN /\ parent(r.output_path[1]) = r.output_dir[1]
                      /\ name(r.output_path[1]) = leaf
                 ELSE /\ parent(r.output_path[1]) = parent(r.input)
                      /\ name(r.output_path[1]) = leaf
                      /\ Len(r.output_path[1]) = Len(r.input)

\* an accepted request was written below an existing directory
C4_Witness ==
    \E k \in Calls :
        /\ Accepted(log[k])
        /\ log[k].status = "ok"
        /\ log[k].output_dir # None
        /\ log[k].output_dir[1] \in log[k].dirs_before

\* C5: a call rejected for an unsupported output format, for identical
\* formats or for an unregistered pair leaves the file system as it was.
C5_RejectNoEffect ==
    \A k \in Calls :
        log[k].cause \in {"unsupported", "same", "nopair"} =>
            /\ log[k].dirs = log[k].dirs_before
            /\ log[k].files = log[k].files_before

\* C6: after a successful conversion to ico the file at the output path is
\* an image of 256 x 256 pixels.
C6_IcoSize ==
    \A k \in Calls :
        (log[k].status = "ok" /\ lower(log[k].fmt) = ico) =>
            LET c == log[k].files[log[k].output_path[1]]
            IN  c.kind = "image" /\ c.w = 256 /\ c.h = 256

\* the input path with the letters of its extension in lower case
LowerExt(p) ==
    IF p = <<>> THEN p ELSE Append(parent(p), stem(p) \o lower(suffix(p)))

Verdict(r) ==
    IF r.cause \in {"unsupported", "same", "nopair"} THEN r.cause
    ELSE "accepted"

\* C7: a call and the same call with the format token in lower case are
\* both accepted or both rejected for the same reason, and when accepted
\* resolve the same output path and normalization; an input path and the
\* same path with its extension in lower case have the same input format.
C7_CaseInsensitive ==
    \A k \in Calls :
        LET r == log[k]
            t == convert(r.dirs_before, r.files_before, r.input,
                         lower(r.fmt), r.output_dir, FALSE, FALSE)
        IN  /\ Verdict(t) = Verdict(r)
            /\ Accepted(r) => (t.output_path = r.output_path /\ t.norm = r.norm)
            /\ input_ext_of(LowerExt(r.input)) = input_ext_of(r.input)

\* C8: a call of convert returns or raises ConversionError.
C8_OnlyConversionError ==
    \A k \in Calls : log[k].status \in {"ok", "ConversionError"}

\* C9: after a failed write the output path does not exist if it did not
\* exist before the call, and otherwise holds what it held before the call.
C9_NoPartialOutput ==
    \A k \in Calls :
        LET r == log[k]
            out == r.output_path[1]
        IN  r.cause = "write" =>
              IF out \in DOMAIN r.files_before
              THEN out \in DOMAIN r.files /\ r.files[out] = r.files_before[out]
              ELSE out \notin DOMAIN r.files

\* output_dir is absent or is not an existing regular file
NotAFile(r) ==
    r.output_dir = None \/ r.output_dir[1] \notin DOMAIN r.files_before

\* C10: when output_dir is absent or is not an existing regular file, the
\* output path resolved for a request that passes the supported-format and
\* identity checks differs from the input path, and every input file holds
\* its original content unless it was the output path of another input.
C10_InputPreserved ==
    /\ \A k \in Calls :
         LET r == log[k]
         IN  (NotAFile(r) /\ lower(r.fmt) \in supported_formats
              /\ input_ext_of(r.input) # lower(r.fmt) /\ r.output_path # None)
                => r.output_path[1] # r.input
    /\ (Len(log) > 0 /\ \A k \in Calls : NotAFile(log[k])) =>
         \A j \in 1..Len(input_files) :
            LET f == input_files[j]
                before == log[1].files_before
            IN  f \in DOMAIN before =>
                  \/ (f \in DOMAIN files /\ files[f] = before[f])
                  \/ \E k \in Calls :
                        log[k].input # f /\ log[k].output_path = Some(f)

\* without output_dir, one input was converted and another input, which is
\* not an output path, is still there
C10_Witness ==
    \E k \in Calls :
        /\ log[k].output_dir = None
        /\ log[k].status = "ok"
        /\ log[k].output_path[1] # log[k].input
        /\ \E j \in 1..Len(input_files) :
              /\ input_files[j] # log[k].input
              /\ input_files[j] \in DOMAIN files
              /\ files[input_files[j]] = log[1].files_before[input_files[j]]

====
